---- MODULE Spec2Model ----
(***************************************************************************)
(* A model of filipgorny/config: the Config facade (get, has, getAll,      *)
(* read), the environment-file provider (DotEnvConfigProvider) and the     *)
(* structured-document provider (JsonConfigProvider).                      *)
(*                                                                         *)
(* Text.  A JavaScript string is a sequence of chunks.  Every character    *)
(* the code looks at (".", "/", digits, signs, blanks, the letters of      *)
(* true/false) is a chunk of its own; other chunks ("toString",            *)
(* "config.json" in a path) are opaque pieces of text.                     *)
(*                                                                         *)
(* Values.  A JavaScript value is a record tagged by its type in field t;  *)
(* each type keeps its payload in a field of its own name.                 *)
(***************************************************************************)
EXTENDS Integers, Sequences, FiniteSets, TLC

VARIABLES
    files,       \* the file system: path -> content, for the paths that exist
    cwd,         \* process.cwd()
    processEnv,  \* process.env: variable name -> string, for the variables set
    config,      \* the Config facade the caller holds (its provider), or NoConfig
    outcome      \* the result of the call the caller is looking at, or NoCall

vars == <<files, cwd, processEnv, config, outcome>>

-----------------------------------------------------------------------------
(* Bounds of the model                                                     *)

MaxSchemaLen == 2
MaxRawLen == 2

-----------------------------------------------------------------------------
(* JavaScript values                                                       *)

Undefined == [t |-> "undefined"]
Null == [t |-> "null"]
Bool(b) == [t |-> "boolean", b |-> b]
Str(s) == [t |-> "string", s |-> s]
\* the number m * 10^e, with m not a multiple of 10 unless m = 0 = e
Num(m, e) == [t |-> "number", m |-> m, e |-> e]
Whole(n) == [t |-> "number", m |-> n, e |-> 0]
Infinite(sign) == [t |-> "number", inf |-> sign]
NaN == [t |-> "number", nan |-> TRUE]
Arr(a) == [t |-> "array", a |-> a]
Obj(o) == [t |-> "object", o |-> o]
\* a member inherited from a prototype
Fn(name) == [t |-> "function", f |-> name]

EmptyMap == [k \in {} |-> Undefined]

\* typeof value === "string"
IsString(v) == v.t = "string"

\* typeof value === "object" && value   (null is an object, but falsy)
IsTraversable(v) == v.t \in {"object", "array"}

-----------------------------------------------------------------------------
(* Number(value): the StringToNumber conversion                            *)

Digits == <<"0", "1", "2", "3", "4", "5", "6", "7", "8", "9">>
HexDigits == <<"0", "1", "2", "3", "4", "5", "6", "7", "8", "9",
               "a", "b", "c", "d", "e", "f">>
UpperHex == [c \in {"A", "B", "C", "D", "E", "F"} |->
               CASE c = "A" -> "a" [] c = "B" -> "b" [] c = "C" -> "c"
                 [] c = "D" -> "d" [] c = "E" -> "e" [] c = "F" -> "f"]

IsDigit(c) == \E i \in 1..Len(Digits) : Digits[i] = c
DigitVal(c) == (CHOOSE i \in 1..Len(Digits) : Digits[i] = c) - 1
IsHexDigit(c) ==
    \/ \E i \in 1..Len(HexDigits) : HexDigits[i] = c
    \/ c \in DOMAIN UpperHex
HexVal(c) ==
    LET l == IF c \in DOMAIN UpperHex THEN UpperHex[c] ELSE c
    IN  (CHOOSE i \in 1..Len(HexDigits) : HexDigits[i] = l) - 1

IsWhiteSpace(c) == c \in {" ", "\t"}

RECURSIVE TrimStart(_)
TrimStart(s) ==
    IF s # <<>> /\ IsWhiteSpace(Head(s)) THEN TrimStart(Tail(s)) ELSE s

RECURSIVE TrimEnd(_)
TrimEnd(s) ==
    IF s # <<>> /\ IsWhiteSpace(s[Len(s)])
    THEN TrimEnd(SubSeq(s, 1, Len(s) - 1)) ELSE s

Trim(s) == TrimEnd(TrimStart(s))

\* the length of the longest prefix of s made of digits
RECURSIVE DigitPrefix(_)
DigitPrefix(s) ==
    IF s # <<>> /\ IsDigit(Head(s)) THEN 1 + DigitPrefix(Tail(s)) ELSE 0

\* the value of a sequence of digits in the given radix
RECURSIVE RadixValue(_, _)
RadixValue(s, radix) ==
    IF s = <<>> THEN 0
    ELSE RadixValue(SubSeq(s, 1, Len(s) - 1), radix) * radix + HexVal(s[Len(s)])

\* m * 10^e without trailing zeros in m
RECURSIVE Normalise(_, _)
Normalise(m, e) ==
    IF m = 0 THEN Num(0, 0)
    ELSE IF m % 10 = 0 THEN Normalise(m \div 10, e + 1)
    ELSE Num(m, e)

\* the number of decimal digits of n > 0
RECURSIVE DigitCount(_)
DigitCount(n) == IF n < 10 THEN 1 ELSE 1 + DigitCount(n \div 10)

\* a double holds magnitudes from about 5e-324 to 1.8e308
Finite(sign, m, e) ==
    IF m = 0 THEN Num(0, 0)
    ELSE IF DigitCount(m) + e > 309 THEN Infinite(sign)
    ELSE IF DigitCount(m) + e < -323 THEN Num(0, 0)
    ELSE Normalise(sign * m, e)

\* StrUnsignedDecimalLiteral: digits [. digits] [exp]  or  . digits [exp]
UnsignedDecimal(s, sign) ==
    LET i == DigitPrefix(s)
        afterInt == SubSeq(s, i + 1, Len(s))
        hasDot == afterInt # <<>> /\ Head(afterInt) = "."
        afterDot == IF hasDot THEN Tail(afterInt) ELSE afterInt
        f == IF hasDot THEN DigitPrefix(afterDot) ELSE 0
        rest == SubSeq(afterDot, f + 1, Len(afterDot))
        mant == RadixValue(SubSeq(s, 1, i) \o SubSeq(afterDot, 1, f), 10)
        hasExp == rest # <<>> /\ Head(rest) \in {"e", "E"}
        afterE == IF hasExp THEN Tail(rest) ELSE rest
        expSign == IF afterE # <<>> /\ Head(afterE) = "-" THEN -1 ELSE 1
        expDigits == IF afterE # <<>> /\ Head(afterE) \in {"-", "+"}
                     THEN Tail(afterE) ELSE afterE
        x == DigitPrefix(expDigits)
    IN  IF i + f = 0 THEN NaN
        ELSE IF ~hasExp
             THEN IF rest = <<>> THEN Finite(sign, mant, -f) ELSE NaN
        ELSE IF x = 0 \/ x # Len(expDigits) THEN NaN
        ELSE Finite(sign, mant, expSign * RadixValue(expDigits, 10) - f)

\* 0x.., 0o.., 0b..: no sign allowed
RadixLiteral(s) ==
    LET radix == CASE s[2] \in {"x", "X"} -> 16
                   [] s[2] \in {"o", "O"} -> 8
                   [] s[2] \in {"b", "B"} -> 2
        body == SubSeq(s, 3, Len(s))
    IN  IF /\ body # <<>>
           /\ \A i \in 1..Len(body) :
                  IsHexDigit(body[i]) /\ HexVal(body[i]) < radix
        THEN Normalise(RadixValue(body, radix), 0)
        ELSE NaN

StringToNumber(raw) ==
    LET s == Trim(raw)
        signed == s # <<>> /\ Head(s) \in {"+", "-"}
        sign == IF s # <<>> /\ Head(s) = "-" THEN -1 ELSE 1
        u == IF signed THEN Tail(s) ELSE s
    IN  IF s = <<>> THEN Num(0, 0)
        ELSE IF u = <<"Infinity">> THEN Infinite(sign)
        ELSE IF /\ Len(s) >= 2 /\ s[1] = "0"
                /\ s[2] \in {"x", "X", "o", "O", "b", "B"}
             THEN RadixLiteral(s)
        ELSE UnsignedDecimal(u, sign)

IsNaN(v) == v = NaN

-----------------------------------------------------------------------------
(* value.toLowerCase()                                                     *)

LowerChar(c) ==
    CASE c = "T" -> "t" [] c = "R" -> "r" [] c = "U" -> "u" [] c = "E" -> "e"
      [] c = "F" -> "f" [] c = "A" -> "a" [] c = "L" -> "l" [] c = "S" -> "s"
      [] c = "X" -> "x" [] c = "B" -> "b" [] c = "O" -> "o"
      [] c = "Infinity" -> "infinity"
      [] OTHER -> c

ToLowerCase(s) == [i \in 1..Len(s) |-> LowerChar(s[i])]

TrueText == <<"t", "r", "u", "e">>
FalseText == <<"f", "a", "l", "s", "e">>

-----------------------------------------------------------------------------
(* Property access on objects and arrays: `k in value` and `value[k]`      *)

\* members every plain object inherits from Object.prototype
ObjectPrototypeKeys ==
    {<<"toString">>, <<"constructor">>, <<"hasOwnProperty">>, <<"valueOf">>}
\* members every array also inherits from Array.prototype
ArrayPrototypeKeys == {<<"map">>, <<"push">>}

\* a canonical numeric string: an integer-like property name
IsArrayIndex(k) ==
    /\ k # <<>>
    /\ Len(k) <= 9
    /\ \A i \in 1..Len(k) : IsDigit(k[i])
    /\ Len(k) > 1 => k[1] # "0"

IndexValue(k) == RadixValue(k, 10)

HasOwnProperty(v, k) ==
    CASE v.t = "object" -> k \in DOMAIN v.o
      [] v.t = "array" ->
            \/ IsArrayIndex(k) /\ IndexValue(k) < Len(v.a)
            \/ k = <<"length">>

\* k in value, for an object or an array: own or inherited
HasProperty(v, k) ==
    \/ HasOwnProperty(v, k)
    \/ k \in ObjectPrototypeKeys
    \/ v.t = "array" /\ k \in ArrayPrototypeKeys

\* value[k], for an object or an array
GetProperty(v, k) ==
    IF HasOwnProperty(v, k)
    THEN CASE v.t = "object" -> v.o[k]
           [] v.t = "array" ->
                 IF k = <<"length">> THEN Whole(Len(v.a))
                 ELSE v.a[IndexValue(k) + 1]
    ELSE IF HasProperty(v, k) THEN Fn(k)
    ELSE Undefined

Put(o, k, v) == [x \in DOMAIN o \cup {k} |-> IF x = k THEN v ELSE o[x]]

-----------------------------------------------------------------------------
(* A call's result                                                         *)

Return(v) == [kind |-> "return", value |-> v]
Throw(e) == [kind |-> "throw", error |-> e]

\* new ConfigPropertyDoesNotExistError(propertyName)
ConfigPropertyDoesNotExistError(propertyName) ==
    [name |-> "ConfigPropertyDoesNotExistError",
     propertyName |-> propertyName,
     message |-> <<"Configuration property \"">> \o propertyName
                   \o <<"\" does not exist or is not defined">>]

\* new Error(message)
Error(message) == [name |-> "Error", message |-> message]

-----------------------------------------------------------------------------
(* DotEnvConfigProvider                                                    *)

\* a provider that answers from process.env as it is now, not from what it
\* read when it was constructed
DotEnvGet_ProcessEnv(cfg, key) ==
    IF key \in DOMAIN processEnv THEN Str(processEnv[key]) ELSE Undefined

\* this.config is a plain object holding the parsed assignments as strings
DotEnvProvider(cfg) == [kind |-> "dotenv", config |-> Obj(cfg)]

DotEnvGet(cfg, key) ==
    LET value == GetProperty(cfg, key)
    IN  IF IsString(value)
        THEN IF ToLowerCase(value.s) = TrueText THEN Bool(TRUE)
             ELSE IF ToLowerCase(value.s) = FalseText THEN Bool(FALSE)
             ELSE LET num == StringToNumber(value.s)
                  IN  IF ~IsNaN(num) THEN num ELSE value
        ELSE value

DotEnvHas_Truthy(cfg, key) ==
    LET value == DotEnvGet(cfg, key)
    IN  value \notin {Undefined, Bool(FALSE), Num(0, 0), Str(<<>>)}

DotEnvHas(cfg, key) == HasProperty(cfg, key)

-----------------------------------------------------------------------------
(* JsonConfigProvider                                                      *)

\* this.config is whatever JSON.parse returned
JsonProvider(doc) == [kind |-> "json", config |-> doc]

\* s.split(sep): the pieces of s between the separators, empty ones kept
RECURSIVE SplitOn(_, _)
SplitOn(s, sep) ==
    IF \A i \in 1..Len(s) : s[i] # sep THEN <<s>>
    ELSE LET d == CHOOSE i \in 1..Len(s) :
                      s[i] = sep /\ \A j \in 1..(i - 1) : s[j] # sep
         IN  <<SubSeq(s, 1, d - 1)>> \o SplitOn(SubSeq(s, d + 1, Len(s)), sep)

\* key.split(".")
Split(key) == SplitOn(key, ".")

RECURSIVE Descend(_, _)
Descend(value, keys) ==
    IF keys = <<>> THEN value
    ELSE IF IsTraversable(value) /\ HasProperty(value, Head(keys))
         THEN Descend(GetProperty(value, Head(keys)), Tail(keys))
    ELSE Undefined

JsonGet(doc, key) == Descend(doc, Split(key))

JsonHas(doc, key) == JsonGet(doc, key) # Undefined

\* What a call hands back is a reference: either to an object allocated by
\* the call, or to an object the provider keeps.
NewObject(v) == [alias |-> FALSE, value |-> v]

StoredObject(v) == [alias |-> TRUE, value |-> v]

\* { ...this.config }: the own enumerable properties of the root
SpreadOf(doc) ==
    CASE doc.t = "object" -> Obj(doc.o)
      [] doc.t = "array" ->
            Obj([k \in {<<Digits[i]>> : i \in 1..Len(doc.a)} |->
                    doc.a[IndexValue(k) + 1]])
      [] doc.t = "string" ->
            Obj([k \in {<<Digits[i]>> : i \in 1..Len(doc.s)} |->
                    Str(<<doc.s[IndexValue(k) + 1]>>)])
      [] OTHER -> Obj(EmptyMap)

\* the provider handing out its own store instead of a copy
JsonGetAll_ReturnsStore(doc) == StoredObject(doc)

\* getAll(): return { ...this.config }
JsonGetAll(doc) == NewObject(SpreadOf(doc))

-----------------------------------------------------------------------------
(* A caller's own provider: get over a plain data object, has optional     *)

MockConfigProvider(data, withHas) ==
    [kind |-> "mock", data |-> Obj(data), withHas |-> withHas]

MockGet(data, key) == GetProperty(data, key)

MockHas(data, key) == HasProperty(data, key)

-----------------------------------------------------------------------------
(* The ConfigProvider interface                                            *)

ProviderGet(provider, key) ==
    CASE provider.kind = "dotenv" -> DotEnvGet(provider.config, key)
      [] provider.kind = "json" -> JsonGet(provider.config, key)
      [] provider.kind = "mock" -> MockGet(provider.data, key)

\* whether the provider object has a has method
ProviderImplementsHas(provider) ==
    provider.kind \in {"dotenv", "json"}
        \/ (provider.kind = "mock" /\ provider.withHas)

ProviderHas(provider, key) ==
    CASE provider.kind = "dotenv" -> DotEnvHas(provider.config, key)
      [] provider.kind = "json" -> JsonHas(provider.config, key)
      [] provider.kind = "mock" -> MockHas(provider.data, key)

\* typeof provider.getAll === "function"
ProviderImplementsGetAll(provider) == provider.kind = "json"

-----------------------------------------------------------------------------
(* Config                                                                  *)

NoConfig == [kind |-> "none"]

\* new Config(provider)
Config(provider) == [kind |-> "config", provider |-> provider]

ConfigGet(provider, key) == Return(ProviderGet(provider, key))

ConfigHas(provider, key) ==
    Return(Bool(IF ProviderImplementsHas(provider)
                THEN ProviderHas(provider, key)
                ELSE ProviderGet(provider, key) # Undefined))

ConfigGetAll(provider) ==
    IF ProviderImplementsGetAll(provider)
    THEN Return(JsonGetAll(provider.config))
    ELSE Throw(Error(<<"Provider does not support getAll method">>))

\* A schema (the properties argument) is an object: its keys in the order
\* the caller wrote them, each with its default.
SchemaKeys(schema) == {schema[i].key : i \in 1..Len(schema)}

\* the entries whose key is integer-like, in ascending numeric order
RECURSIVE IndexEntries(_)
IndexEntries(schema) ==
    LET idx == {i \in 1..Len(schema) : IsArrayIndex(schema[i].key)}
    IN  IF idx = {} THEN <<>>
        ELSE LET lo == CHOOSE i \in idx : \A j \in idx :
                           IndexValue(schema[i].key) <= IndexValue(schema[j].key)
             IN  <<schema[lo]>> \o
                 IndexEntries(SubSeq(schema, 1, lo - 1)
                              \o SubSeq(schema, lo + 1, Len(schema)))

NamedEntries(schema) == SelectSeq(schema, LAMBDA en : ~IsArrayIndex(en.key))

ObjectEntries_InsertionOrder(schema) == schema

\* Object.entries(properties): integer-like keys first, ascending, then
\* the other keys in insertion order
ObjectEntries(schema) == IndexEntries(schema) \o NamedEntries(schema)

\* the loop body for one entry: the value it stores under key, or the
\* error it throws
ReadProperty_DefaultWins(provider, key, defaultValue) ==
    LET value == ProviderGet(provider, key)
    IN  IF defaultValue # Undefined THEN Return(defaultValue)
        ELSE IF value # Undefined THEN Return(value)
        ELSE Throw(ConfigPropertyDoesNotExistError(key))

ReadProperty_StoresLookup(provider, key, defaultValue) ==
    LET value == ProviderGet(provider, key)
    IN  IF value # Undefined THEN Return(value)
        ELSE IF defaultValue # Undefined THEN Return(value)
        ELSE Throw(ConfigPropertyDoesNotExistError(key))

\* a read that takes a stored null for a missing value (value != null)
ReadProperty_NullIsAbsent(provider, key, defaultValue) ==
    LET value == ProviderGet(provider, key)
    IN  IF value # Undefined /\ value # Null THEN Return(value)
        ELSE IF defaultValue # Undefined THEN Return(defaultValue)
        ELSE Throw(ConfigPropertyDoesNotExistError(key))

ReadProperty(provider, key, defaultValue) ==
    LET value == ProviderGet(provider, key)
    IN  IF value # Undefined THEN Return(value)
        ELSE IF defaultValue # Undefined THEN Return(defaultValue)
        ELSE Throw(ConfigPropertyDoesNotExistError(key))

\* the loop over the entries, result being the object built so far
RECURSIVE ReadEntries_SkipsMissing(_, _, _)
ReadEntries_SkipsMissing(provider, entries, result) ==
    IF entries = <<>> THEN Return(Obj(result))
    ELSE LET key == Head(entries).key
             step == ReadProperty(provider, key, Head(entries).def)
         IN  IF step.kind = "return"
             THEN ReadEntries_SkipsMissing(provider, Tail(entries),
                                           Put(result, key, step.value))
             ELSE ReadEntries_SkipsMissing(provider, Tail(entries), result)

RECURSIVE ReadEntries(_, _, _)
ReadEntries(provider, entries, result) ==
    IF entries = <<>> THEN Return(Obj(result))
    ELSE LET key == Head(entries).key
             step == ReadProperty(provider, key, Head(entries).def)
         IN  IF step.kind = "return"
             THEN ReadEntries(provider, Tail(entries),
                              Put(result, key, step.value))
             ELSE step

ConfigRead(provider, schema) ==
    ReadEntries(provider, ObjectEntries(schema), EmptyMap)

-----------------------------------------------------------------------------
(* The inputs the model draws from                                         *)

\* all sequences over chars of length at most n
RECURSIVE SeqsUpTo(_, _)
SeqsUpTo(chars, n) ==
    IF n = 0 THEN {<<>>}
    ELSE LET shorter == SeqsUpTo(chars, n - 1)
         IN  shorter \cup {Append(s, c) : s \in shorter, c \in chars}

RawChars == {"1", ".", "-"}

\* raw values of an environment file
RawPool ==
    SeqsUpTo(RawChars, MaxRawLen) \cup
    { <<"t", "r", "u", "e">>, <<"T", "R", "U", "E">>, <<"T", "r", "u", "e">>,
      <<"f", "a", "l", "s", "e">>, <<"F", "a", "l", "s", "E">>,
      <<"4", "2">>, <<"3", ".", "1", "4">>, <<"3", ".", "1", "4", "0">>,
      <<"h", "e", "l", "l", "o">>, <<"0", "x", "1", "F">>, <<"Infinity">>,
      <<"1", "e", "3">>, <<" ", "4", "2", " ">>, <<"N", "a", "N">>,
      <<"t", "r", "u", "e", " ">>, <<" ">>, <<" ", "1">>, <<"1", " ", "1">>,
      <<"1", "e">>, <<"e", "1">>, <<"-", " ", "1">> }

\* keys the caller asks for
KeyPool ==
    { <<"a">>, <<"b">>, <<"2">>, <<"1", "0">>, <<"a", ".", "b">>,
      <<"a", ".", "c">>, <<"x", ".", "y">>, <<"a", ".", "0", ".", "b">>,
      <<"a", ".", "length">>, <<"toString">>, <<"a", ".", "toString">>,
      <<"a", ".">>, <<>> }

\* keys a schema declares
SchemaKeyPool == { <<"a">>, <<"2">>, <<"1", "0">>, <<"a", ".", "b">> }

DefaultPool == { Undefined, Whole(0), Str(<<"d">>) }

\* the schemas of at most n keys: distinct keys, in the caller's order
RECURSIVE SchemasUpTo(_)
SchemasUpTo(n) ==
    IF n = 0 THEN {<<>>}
    ELSE LET shorter == SchemasUpTo(n - 1)
         IN  shorter \cup
             { Append(s, [key |-> k, def |-> d]) :
                 s \in shorter, k \in SchemaKeyPool, d \in DefaultPool }

SchemaPool ==
    { s \in SchemasUpTo(MaxSchemaLen) :
        \A i, j \in 1..Len(s) : i # j => s[i].key # s[j].key }

\* the data objects of a caller's own provider
MockDataPool ==
    LET keys == { <<"a">>, <<"2">> }
        values == { Str(<<"v">>), Whole(0) }
    IN  UNION { [ks -> values] : ks \in SUBSET keys }

\* the parsed assignments of an environment file
DotEnvConfigPool ==
    { [k \in {<<"a">>} |-> Str(raw)] : raw \in RawPool } \cup
    { EmptyMap,
      [k \in {<<"a">>, <<"b">>} |->
          IF k = <<"a">> THEN Str(<<"4", "2">>) ELSE Str(<<>>)],
      [k \in {<<"2">>, <<"b">>} |-> Str(<<"f", "a", "l", "s", "e">>)],
      [k \in {<<"toString">>} |-> Str(<<"x">>)] }

\* parsed JSON documents
JsonDocPool ==
    { Obj([k \in {<<"a">>} |-> Obj([j \in {<<"b">>} |-> Whole(1)])]),
      Obj([k \in {<<"a">>, <<"b">>} |->
              IF k = <<"a">> THEN Null ELSE Str(<<"x">>)]),
      Obj([k \in {<<"a">>, <<"2">>} |->
              IF k = <<"a">>
              THEN Arr(<<Obj([j \in {<<"b">>} |-> Whole(1)]), Bool(TRUE)>>)
              ELSE Bool(FALSE)]),
      Obj([k \in {<<"a">>, <<"1", "0">>} |->
              IF k = <<"a">> THEN Str(<<"s">>) ELSE Whole(0)]),
      Obj([k \in {<<"a", ".", "b">>, <<"a">>} |->
              IF k = <<"a">> THEN Obj(EmptyMap) ELSE Whole(5)]),
      Obj([k \in {<<"a">>} |->
              Obj([j \in {<<"b">>, <<"">>} |-> IF j = <<"b">> THEN Null ELSE Whole(7)])]),
      Obj(EmptyMap),
      Arr(<<Whole(1)>>),
      Whole(42),
      Null }

ProviderPool ==
    { MockConfigProvider(d, h) : d \in MockDataPool, h \in BOOLEAN } \cup
    { DotEnvProvider(c) : c \in DotEnvConfigPool } \cup
    { JsonProvider(d) : d \in JsonDocPool }

-----------------------------------------------------------------------------
(* The facade over a constructed provider                                  *)

NoCall == [op |-> "none"]

Root == <<"/">>

Init ==
    /\ files = EmptyMap
    /\ cwd = Root
    /\ processEnv = EmptyMap
    /\ config \in { Config(p) : p \in ProviderPool }
    /\ outcome = NoCall

\* config.get(key)
Get(key) ==
    /\ config # NoConfig
    /\ outcome = NoCall
    /\ outcome' = [op |-> "get", key |-> key,
                   res |-> ConfigGet(config.provider, key)]
    /\ UNCHANGED <<files, cwd, processEnv, config>>

\* config.has(key)
Has(key) ==
    /\ config # NoConfig
    /\ outcome = NoCall
    /\ outcome' = [op |-> "has", key |-> key,
                   res |-> ConfigHas(config.provider, key)]
    /\ UNCHANGED <<files, cwd, processEnv, config>>

\* config.getAll(); the caller holds the returned reference, so far unedited
GetAll ==
    /\ config # NoConfig
    /\ outcome = NoCall
    /\ outcome' = [op |-> "getAll", res |-> ConfigGetAll(config.provider),
                   edited |-> FALSE]
    /\ UNCHANGED <<files, cwd, processEnv, config>>

\* The caller holds an object returned by getAll.
HoldsReturned ==
    /\ outcome.op = "getAll"
    /\ outcome.res.kind = "return"
    /\ outcome.res.value.value.t = "object"

\* An edit of the held object is an edit of the provider's store exactly
\* when the held reference is the store itself.
EditReturned(o) ==
    /\ outcome' = [outcome EXCEPT !.res.value.value = Obj(o),
                                  !.edited = TRUE]
    /\ config' = IF outcome.res.value.alias
                 THEN Config([config.provider EXCEPT !.config = Obj(o)])
                 ELSE config
    /\ UNCHANGED <<files, cwd, processEnv>>

\* the caller adds or overwrites a top-level key of the returned object
SetOnReturned(key, value) ==
    /\ HoldsReturned
    /\ EditReturned(Put(outcome.res.value.value.o, key, value))

\* the caller deletes a top-level key of the returned object
DeleteOnReturned(key) ==
    /\ HoldsReturned
    /\ key \in DOMAIN outcome.res.value.value.o
    /\ EditReturned([k \in DOMAIN outcome.res.value.value.o \ {key} |->
                        outcome.res.value.value.o[k]])

\* config.read(schema)
Read(schema) ==
    /\ config # NoConfig
    /\ outcome = NoCall
    /\ outcome' = [op |-> "read", schema |-> schema,
                   res |-> ConfigRead(config.provider, schema)]
    /\ UNCHANGED <<files, cwd, processEnv, config>>

\* the caller has consumed the result of its last call
Forget ==
    /\ outcome # NoCall
    /\ outcome' = NoCall
    /\ UNCHANGED <<files, cwd, processEnv, config>>

\* top-level keys a caller edits on a returned object
EditKeyPool == {<<"a">>, <<"z">>}

Next ==
    \/ \E key \in KeyPool : Get(key)
    \/ \E key \in KeyPool : Has(key)
    \/ GetAll
    \/ \E key \in EditKeyPool : SetOnReturned(key, Str(<<"edited">>))
    \/ \E key \in EditKeyPool : DeleteOnReturned(key)
    \/ \E schema \in SchemaPool : Read(schema)
    \/ Forget

Spec == Init /\ [][Next]_vars

-----------------------------------------------------------------------------
(* Paths (the path module, POSIX)                                          *)

\* path.isAbsolute(p)
IsAbsolute(p) == p # <<>> /\ Head(p) = "/"

\* the segments of a path with "", "." and ".." resolved
RECURSIVE ResolveSegments(_, _)
ResolveSegments(segments, done) ==
    IF segments = <<>> THEN done
    ELSE LET seg == Head(segments)
         IN  IF seg = <<>> \/ seg = <<".">>
             THEN ResolveSegments(Tail(segments), done)
             ELSE IF seg = <<"..">>
             THEN ResolveSegments(Tail(segments),
                                  IF done = <<>> THEN done
                                  ELSE SubSeq(done, 1, Len(done) - 1))
             ELSE ResolveSegments(Tail(segments), Append(done, seg))

Segments(p) == ResolveSegments(SplitOn(p, "/"), <<>>)

\* "/" followed by the segments, "/"-separated
RECURSIVE AbsolutePath(_)
AbsolutePath(segments) ==
    IF segments = <<>> THEN Root
    ELSE IF Len(segments) = 1 THEN <<"/">> \o segments[1]
    ELSE AbsolutePath(SubSeq(segments, 1, Len(segments) - 1))
             \o <<"/">> \o segments[Len(segments)]

\* path.resolve(from, to), from being absolute
PathResolve(from, to) ==
    IF IsAbsolute(to) THEN AbsolutePath(Segments(to))
    ELSE AbsolutePath(Segments(from \o <<"/">> \o to))

\* path.join(dir, name), dir being absolute
PathJoin(dir, name) == AbsolutePath(Segments(dir \o <<"/">> \o name))

\* path.dirname(dir), dir being absolute and normal
PathDirname(dir) ==
    LET segments == Segments(dir)
    IN  IF segments = <<>> THEN Root
        ELSE AbsolutePath(SubSeq(segments, 1, Len(segments) - 1))

\* path.parse(dir).root
PathRoot(dir) == IF IsAbsolute(dir) THEN Root ELSE <<>>

-----------------------------------------------------------------------------
(* The file system                                                         *)

AppDir == <<"/", "app">>
SvcDir == <<"/", "app", "/", "svc">>

\* the directories of the model
Dirs == {Root, AppDir, SvcDir}

\* what a path of `files` holds
EnvFile(lines) == [kind |-> "env", lines |-> lines]
JsonFile(doc) == [kind |-> "json", doc |-> doc]
GarbageFile == [kind |-> "garbage"]

\* fs.existsSync(p)
ExistsSync(fs, p) == p \in Dirs \/ p \in DOMAIN fs

\* fs.readFileSync(p): the content, or the error it throws
ReadFileSync(fs, p) ==
    IF p \in Dirs
    THEN Throw([name |-> "Error", code |-> "EISDIR",
                message |-> <<"EISDIR: illegal operation on a directory, read">>])
    ELSE IF p \notin DOMAIN fs
    THEN Throw([name |-> "Error", code |-> "ENOENT",
                message |-> <<"ENOENT: no such file or directory, open ">> \o p])
    ELSE Return(fs[p])

-----------------------------------------------------------------------------
(* Loading an environment file                                             *)

\* dotenv.parse: the assignments of the file, a later one of a key
\* replacing an earlier one; a file holding no assignment parses to {}
RECURSIVE ParseLines(_, _)
ParseLines(lines, parsed) ==
    IF lines = <<>> THEN parsed
    ELSE ParseLines(Tail(lines),
                    Put(parsed, Head(lines).key, Str(Head(lines).value)))

DotenvParse(content) ==
    IF content.kind = "env" THEN ParseLines(content.lines, EmptyMap)
    ELSE EmptyMap

\* dotenv's populate: a variable already set in process.env is kept
Populate(env, parsed) ==
    [k \in DOMAIN env \cup DOMAIN parsed |->
        IF k \in DOMAIN env THEN env[k] ELSE parsed[k].s]

\* findRootEnvPath: the loop from currentDir upward
RECURSIVE SearchUpward(_, _, _, _)
SearchUpward(fs, dir, currentDir, dotenvPath) ==
    IF currentDir # PathRoot(currentDir)
    THEN LET envPath == PathJoin(currentDir, dotenvPath)
         IN  IF ExistsSync(fs, envPath) THEN envPath
             ELSE SearchUpward(fs, dir, PathDirname(currentDir), dotenvPath)
    ELSE PathJoin(dir, dotenvPath)

FindRootEnvPath(fs, dir, dotenvPath) ==
    IF IsAbsolute(dotenvPath) THEN dotenvPath
    ELSE SearchUpward(fs, dir, dir, dotenvPath)

\* new DotEnvConfigProvider(dotenvPath): the provider and process.env
\* after it, or the error thrown
NewDotEnvConfigProvider(fs, dir, env, dotenvPath) ==
    LET envPath == FindRootEnvPath(fs, dir, dotenvPath)
        read == ReadFileSync(fs, envPath)
    IN  IF read.kind = "throw"
        THEN [envPath |-> envPath, res |-> read, env |-> env]
        ELSE LET parsed == DotenvParse(read.value)
             IN  [envPath |-> envPath,
                  res |-> Return(DotEnvProvider(parsed)),
                  env |-> Populate(env, parsed)]

-----------------------------------------------------------------------------
(* Loading a JSON document                                                 *)

ConfigPathVar == <<"CONFIG_PATH">>

\* the CONFIG_PATH override consulted before the absolute path
ResolveConfigPath_EnvFirst(dir, env, jsonPath) ==
    IF ConfigPathVar \in DOMAIN env /\ env[ConfigPathVar] # <<>>
    THEN PathResolve(dir, env[ConfigPathVar])
    ELSE IF IsAbsolute(jsonPath) THEN jsonPath
    ELSE PathResolve(dir, jsonPath)

\* resolveConfigPath; `if (envPath)` is false for an unset variable and
\* for the empty string
ResolveConfigPath(dir, env, jsonPath) ==
    IF IsAbsolute(jsonPath) THEN jsonPath
    ELSE IF ConfigPathVar \in DOMAIN env /\ env[ConfigPathVar] # <<>>
         THEN PathResolve(dir, env[ConfigPathVar])
    ELSE PathResolve(dir, jsonPath)

NotFoundText == <<"Configuration file not found: ">>
NotFoundHint ==
    <<"\nProvide a valid path or set CONFIG_PATH environment variable.">>
InvalidJsonText == <<"Invalid JSON in configuration file: ">>

\* JSON.parse(content): only a JSON file holds a JSON text
JsonParse(content) ==
    IF content.kind = "json" THEN Return(content.doc)
    ELSE Throw([name |-> "SyntaxError",
                message |-> <<"Unexpected token">>])

\* loadConfig without the fs.existsSync test
LoadConfig_NoExistsCheck(fs, dir, env, jsonPath) ==
    LET configPath == ResolveConfigPath(dir, env, jsonPath)
        read == ReadFileSync(fs, configPath)
    IN  IF read.kind = "throw"
        THEN [configPath |-> configPath, res |-> read]
        ELSE LET parsed == JsonParse(read.value)
             IN  IF parsed.kind = "throw"
                 THEN [configPath |-> configPath,
                       res |-> Throw(Error(InvalidJsonText \o configPath
                                           \o <<"\n">> \o parsed.error.message))]
                 ELSE [configPath |-> configPath,
                       res |-> Return(JsonProvider(parsed.value))]

\* new JsonConfigProvider(jsonPath): the provider, or the error thrown
LoadConfig(fs, dir, env, jsonPath) ==
    LET configPath == ResolveConfigPath(dir, env, jsonPath)
    IN  IF ~ExistsSync(fs, configPath)
        THEN [configPath |-> configPath,
              res |-> Throw(Error(NotFoundText \o configPath \o NotFoundHint))]
        ELSE LET read == ReadFileSync(fs, configPath)
             IN  IF read.kind = "throw"
                 THEN [configPath |-> configPath, res |-> read]
                 ELSE LET parsed == JsonParse(read.value)
                      IN  IF parsed.kind = "throw"
                          THEN [configPath |-> configPath,
                                res |-> Throw(Error(InvalidJsonText
                                           \o configPath \o <<"\n">>
                                           \o parsed.error.message))]
                          ELSE [configPath |-> configPath,
                                res |-> Return(JsonProvider(parsed.value))]

-----------------------------------------------------------------------------
(* Constructing the providers from the file system                         *)

EnvName == <<".env">>
ConfigJson == <<"config.json">>
AltJson == <<"alt.json">>
AltJsonPath == PathJoin(AppDir, AltJson)

\* the content of the environment file of directory dir: its own value of
\* "a", and the assignments extra
EnvContentOf(dir, extra) ==
    EnvFile(<<[key |-> <<"a">>,
               value |-> IF dir = Root THEN <<"r", "o", "o", "t">>
                         ELSE IF dir = AppDir THEN <<"4", "2">>
                         ELSE <<>>]>> \o extra)

\* assignments an environment file may hold besides "a"
ExtraLinesPool ==
    { <<>>,
      <<[key |-> ConfigPathVar, value |-> <<>>]>>,
      <<[key |-> ConfigPathVar, value |-> AltJsonPath],
        [key |-> <<"a">>, value |-> <<"t", "r", "u", "e">>]>> }

ConfigDoc == Obj([k \in {<<"a">>} |-> Obj([j \in {<<"b">>} |-> Whole(1)])])
AltDoc == Obj([k \in {<<"a">>} |-> Null])

\* the environment files of a file system: any set of directories
EnvFilesPool ==
    { [path \in {PathJoin(d, EnvName) : d \in ds} |->
          EnvContentOf(PathDirname(path), extra)] :
        ds \in SUBSET Dirs, extra \in ExtraLinesPool }

\* the JSON files of a file system
JsonFilesPool ==
    { [path \in ps |->
          IF path = AltJsonPath THEN JsonFile(AltDoc)
          ELSE IF garbled THEN GarbageFile
          ELSE JsonFile(ConfigDoc)] :
        ps \in SUBSET {PathJoin(AppDir, ConfigJson), AltJsonPath},
        garbled \in BOOLEAN }

Merge(f, g) ==
    [path \in DOMAIN f \cup DOMAIN g |->
        IF path \in DOMAIN f THEN f[path] ELSE g[path]]

FilesPool == { Merge(e, j) : e \in EnvFilesPool, j \in JsonFilesPool }

\* process.env at start: CONFIG_PATH unset, empty, relative or absolute
ProcessEnvPool ==
    { EmptyMap } \cup
    { [k \in {ConfigPathVar} |-> v] : v \in {<<>>, AltJson, AltJsonPath} }

\* the arguments of createDotEnvConfig and of createJsonConfig
DotEnvPathPool == { EnvName, PathJoin(AppDir, EnvName), <<"prod.env">> }
JsonPathPool ==
    { ConfigJson, PathJoin(AppDir, ConfigJson), <<"dummy.json">>, AppDir }

LoadKeyPool == { <<"a">>, <<"a", ".", "b">> }

InitLoad ==
    /\ files \in FilesPool
    /\ cwd \in Dirs
    /\ processEnv \in ProcessEnvPool
    /\ config = NoConfig
    /\ outcome = NoCall

\* createDotEnvConfig(dotenvPath)
CreateDotEnvConfig(dotenvPath) ==
    /\ outcome = NoCall
    /\ LET made == NewDotEnvConfigProvider(files, cwd, processEnv, dotenvPath)
       IN  /\ processEnv' = made.env
           /\ config' = IF made.res.kind = "return"
                        THEN Config(made.res.value) ELSE config
           /\ outcome' = [op |-> "createDotEnvConfig", path |-> dotenvPath,
                          loaded |-> made.envPath,
                          res |-> IF made.res.kind = "return"
                                  THEN Return(Config(made.res.value))
                                  ELSE made.res]
    /\ UNCHANGED <<files, cwd>>

\* createJsonConfig(jsonPath)
CreateJsonConfig(jsonPath) ==
    /\ outcome = NoCall
    /\ LET made == LoadConfig(files, cwd, processEnv, jsonPath)
       IN  /\ config' = IF made.res.kind = "return"
                        THEN Config(made.res.value) ELSE config
           /\ outcome' = [op |-> "createJsonConfig", path |-> jsonPath,
                          loaded |-> made.configPath,
                          res |-> IF made.res.kind = "return"
                                  THEN Return(Config(made.res.value))
                                  ELSE made.res]
    /\ UNCHANGED <<files, cwd, processEnv>>

NextLoad ==
    \/ \E dotenvPath \in DotEnvPathPool : CreateDotEnvConfig(dotenvPath)
    \/ \E jsonPath \in JsonPathPool : CreateJsonConfig(jsonPath)
    \/ \E key \in LoadKeyPool : Get(key)
    \/ \E key \in LoadKeyPool : Has(key)
    \/ Forget

SpecLoad == InitLoad /\ [][NextLoad]_vars

-----------------------------------------------------------------------------
(* A configuration in a changing environment: the files, the working      *)
(* directory and CONFIG_PATH change at any time, also while a caller holds *)
(* the result of a call.                                                   *)

SnapEnvPath == PathJoin(AppDir, EnvName)
SnapJsonPath == PathJoin(AppDir, ConfigJson)

\* what may be written to a path
ContentPool(path) ==
    IF path = SnapEnvPath
    THEN { EnvContentOf(AppDir, <<>>), EnvContentOf(Root, <<>>) }
    ELSE { JsonFile(ConfigDoc), JsonFile(AltDoc) }

SnapKeyPool == LoadKeyPool \cup { ConfigPathVar }

SnapSchemaPool ==
    { <<[key |-> <<"a">>, def |-> Undefined]>>,
      <<[key |-> <<"a", ".", "b">>, def |-> Str(<<"d">>)]>> }

InitSnapshot ==
    /\ files = [path \in {SnapEnvPath, SnapJsonPath} |->
                    IF path = SnapEnvPath THEN EnvContentOf(AppDir, <<>>)
                    ELSE JsonFile(ConfigDoc)]
    /\ cwd = AppDir
    /\ processEnv = EmptyMap
    /\ config = NoConfig
    /\ outcome = NoCall

\* fs.writeFileSync(path, content), by anyone
WriteFileSync(path, content) ==
    /\ files' = Put(files, path, content)
    /\ UNCHANGED <<cwd, processEnv, config, outcome>>

\* fs.unlinkSync(path), by anyone
UnlinkSync(path) ==
    /\ path \in DOMAIN files
    /\ files' = [q \in DOMAIN files \ {path} |-> files[q]]
    /\ UNCHANGED <<cwd, processEnv, config, outcome>>

\* process.chdir(dir)
Chdir(dir) ==
    /\ cwd' = dir
    /\ UNCHANGED <<files, processEnv, config, outcome>>

\* process.env.CONFIG_PATH = value
SetConfigPath(value) ==
    /\ processEnv' = Put(processEnv, ConfigPathVar, value)
    /\ UNCHANGED <<files, cwd, config, outcome>>

\* delete process.env.CONFIG_PATH
DeleteConfigPath ==
    /\ ConfigPathVar \in DOMAIN processEnv
    /\ processEnv' = [k \in DOMAIN processEnv \ {ConfigPathVar} |->
                          processEnv[k]]
    /\ UNCHANGED <<files, cwd, config, outcome>>

NextSnapshot ==
    \/ CreateDotEnvConfig(EnvName)
    \/ \E jsonPath \in {ConfigJson, <<"dummy.json">>} :
          CreateJsonConfig(jsonPath)
    \/ \E key \in SnapKeyPool : Get(key)
    \/ \E key \in SnapKeyPool : Has(key)
    \/ GetAll
    \/ \E schema \in SnapSchemaPool : Read(schema)
    \/ Forget
    \/ \E path \in {SnapEnvPath, SnapJsonPath} :
          \E content \in ContentPool(path) : WriteFileSync(path, content)
    \/ \E path \in {SnapEnvPath, SnapJsonPath} : UnlinkSync(path)
    \/ \E dir \in Dirs : Chdir(dir)
    \/ SetConfigPath(SnapJsonPath)
    \/ DeleteConfigPath

SpecSnapshot == InitSnapshot /\ [][NextSnapshot]_vars

-----------------------------------------------------------------------------
(* Properties of Config.read                                               *)

IsRead == outcome.op = "read"

Lookup(key) == ProviderGet(config.provider, key)

\* entry i of the schema has neither a provider value nor a default
MissingRequired(schema, i) ==
    Lookup(schema[i].key) = Undefined /\ schema[i].def = Undefined

\* C1: provider precedence.  When the provider returns a value for every
\* key of the schema, read returns a map holding, for each key, the
\* provider's value, whatever default the schema declares.
C1_ProviderPrecedence ==
    IsRead =>
        LET schema == outcome.schema
        IN  (\A i \in 1..Len(schema) : Lookup(schema[i].key) # Undefined)
            => /\ outcome.res.kind = "return"
               /\ \A i \in 1..Len(schema) :
                      outcome.res.value.o[schema[i].key] = Lookup(schema[i].key)

\* a read in which every key has a provider value and some key also
\* declares a different default
C1_Witness ==
    /\ IsRead
    /\ Len(outcome.schema) = 2
    /\ \A i \in 1..Len(outcome.schema) :
           Lookup(outcome.schema[i].key) # Undefined
    /\ \E i \in 1..Len(outcome.schema) :
           /\ outcome.schema[i].def # Undefined
           /\ outcome.schema[i].def # Lookup(outcome.schema[i].key)
    /\ outcome.res.kind = "return"

\* C2: default fallback.  In a successful read, every key that the
\* provider does not have and whose declared default is not undefined
\* holds that default.
C2_DefaultFallback ==
    (IsRead /\ outcome.res.kind = "return") =>
        \A i \in 1..Len(outcome.schema) :
            LET en == outcome.schema[i]
            IN  (Lookup(en.key) = Undefined /\ en.def # Undefined)
                => /\ en.key \in DOMAIN outcome.res.value.o
                   /\ outcome.res.value.o[en.key] = en.def

\* a successful read in which one key comes from the provider and another
\* from its default
C2_Witness ==
    /\ IsRead
    /\ outcome.res.kind = "return"
    /\ \E i, j \in 1..Len(outcome.schema) :
           /\ Lookup(outcome.schema[i].key) = Undefined
           /\ outcome.schema[i].def = Whole(0)
           /\ Lookup(outcome.schema[j].key) # Undefined

\* whether entry i comes before entry j when the schema is enumerated:
\* integer-like keys in ascending numeric order, then the other keys in
\* the order the caller declared them
EnumeratedBefore(schema, i, j) ==
    LET a == schema[i].key
        b == schema[j].key
    IN  IF IsArrayIndex(a) /\ IsArrayIndex(b) THEN IndexValue(a) < IndexValue(b)
        ELSE IF IsArrayIndex(a) THEN TRUE
        ELSE IF IsArrayIndex(b) THEN FALSE
        ELSE i < j

ReadThrowsIffMissing ==
    LET schema == outcome.schema
    IN  /\ outcome.res.kind \in {"return", "throw"}
        /\ outcome.res.kind = "throw"
             <=> \E i \in 1..Len(schema) : MissingRequired(schema, i)
        /\ outcome.res.kind = "throw"
             => outcome.res.error.name = "ConfigPropertyDoesNotExistError"

\* C3 as stated: read raises whenever some key has no provider value and
\* no default, and the error names the first such key in the order in
\* which the caller declared the keys.
C3_FirstDeclaredMissing ==
    IsRead =>
        LET schema == outcome.schema
        IN  /\ ReadThrowsIffMissing
            /\ outcome.res.kind = "throw" =>
                 \E i \in 1..Len(schema) :
                     /\ outcome.res.error.propertyName = schema[i].key
                     /\ MissingRequired(schema, i)
                     /\ \A j \in 1..(i - 1) : ~MissingRequired(schema, j)

\* C3 amended: read raises whenever some key has no provider value and no
\* default, and the error names the first such key in the order
\* Object.entries enumerates the schema: integer-like keys first, in
\* ascending numeric order, then the other keys in declared order.
C3_FirstEnumeratedMissing ==
    IsRead =>
        LET schema == outcome.schema
        IN  /\ ReadThrowsIffMissing
            /\ outcome.res.kind = "throw" =>
                 \E i \in 1..Len(schema) :
                     /\ outcome.res.error.propertyName = schema[i].key
                     /\ MissingRequired(schema, i)
                     /\ \A j \in 1..Len(schema) :
                            (j # i /\ MissingRequired(schema, j))
                                => EnumeratedBefore(schema, i, j)

\* a read that fails with two required keys missing, where the key
\* reported is not the one declared first
C3_Witness ==
    /\ IsRead
    /\ outcome.res.kind = "throw"
    /\ Len(outcome.schema) = 2
    /\ MissingRequired(outcome.schema, 1)
    /\ MissingRequired(outcome.schema, 2)
    /\ outcome.res.error.propertyName = outcome.schema[2].key

\* C4: all or nothing.  A read either throws, returning nothing, or
\* returns a map whose key set is exactly the key set of the schema.
C4_AllOrNothing ==
    IsRead =>
        \/ /\ outcome.res.kind = "throw"
           /\ "value" \notin DOMAIN outcome.res
        \/ /\ outcome.res.kind = "return"
           /\ outcome.res.value.t = "object"
           /\ DOMAIN outcome.res.value.o = SchemaKeys(outcome.schema)

\* a read that throws on its second entry, after the first was resolved
C4_Witness ==
    /\ IsRead
    /\ outcome.res.kind = "throw"
    /\ Len(outcome.schema) = 2
    /\ \E i \in 1..2 : ~MissingRequired(outcome.schema, i)
    /\ \E i \in 1..2 :
           /\ MissingRequired(outcome.schema, i)
           /\ outcome.res.error.propertyName = outcome.schema[i].key
           /\ \E j \in 1..2 : j # i /\ EnumeratedBefore(outcome.schema, j, i)

-----------------------------------------------------------------------------
(* Properties of has and get                                               *)

\* C5: has and get agree.  Config.has(key) is true iff Config.get(key) is
\* not undefined, for every provider: through the facade's fallback when
\* the provider has no has, and through the providers' own has.
C5_HasIffGet ==
    outcome.op = "has" =>
        /\ outcome.res.kind = "return"
        /\ outcome.res.value.t = "boolean"
        /\ outcome.res.value.b
             <=> ConfigGet(config.provider, outcome.key).value # Undefined

\* has answers true for an environment-file key whose coerced value is
\* false, 0 or empty
C5_Witness ==
    /\ outcome.op = "has"
    /\ config.provider.kind = "dotenv"
    /\ outcome.res.value = Bool(TRUE)
    /\ ConfigGet(config.provider, outcome.key).value
           \in {Bool(FALSE), Num(0, 0), Str(<<>>)}

-----------------------------------------------------------------------------
(* Properties of the environment-file provider's coercion                  *)

IsDotEnvGetOfOwnKey ==
    /\ outcome.op = "get"
    /\ config.provider.kind = "dotenv"
    /\ outcome.key \in DOMAIN config.provider.config.o

RawValue == config.provider.config.o[outcome.key].s

\* the raw string holds a numeric literal: something other than blanks
\* that converts to a number (surrounding blanks, radix prefixes and
\* Infinity are granted to the code)
ParsesAsNumericLiteral(raw) == Trim(raw) # <<>> /\ ~IsNaN(StringToNumber(raw))

\* C6: coercion.  For every raw string v stored under a key, get returns
\* true/false if v is "true"/"false" ignoring case; otherwise a number if
\* the whole of v parses as a numeric literal; otherwise v unchanged.
C6_Coercion ==
    IsDotEnvGetOfOwnKey =>
        outcome.res.value =
            IF ToLowerCase(RawValue) = TrueText THEN Bool(TRUE)
            ELSE IF ToLowerCase(RawValue) = FalseText THEN Bool(FALSE)
            ELSE IF ParsesAsNumericLiteral(RawValue)
                 THEN StringToNumber(RawValue)
            ELSE Str(RawValue)

\* C7: the empty string.  When the raw value of a key is the empty string
\* (the line KEY=), get returns the empty string, not a number.
C7_EmptyStringUnchanged ==
    (IsDotEnvGetOfOwnKey /\ RawValue = <<>>) =>
        outcome.res.value = Str(<<>>)

-----------------------------------------------------------------------------
(* Properties of the structured-document provider's lookup                 *)

\* the lookup the claim describes: descend through the mappings by the
\* segments they hold, absent as soon as a segment is missing or the node
\* is no mapping
RECURSIVE OwnLookup(_, _)
OwnLookup(node, segments) ==
    IF segments = <<>> THEN node
    ELSE IF IsTraversable(node) /\ HasOwnProperty(node, Head(segments))
         THEN OwnLookup(GetProperty(node, Head(segments)), Tail(segments))
    ELSE Undefined

\* C8: dotted-path lookup.  get splits the key on ".", descends the
\* document one segment at a time, returns absent as soon as a segment is
\* missing or the node is not a traversable mapping, and otherwise the
\* final node's value unchanged.
C8_DottedLookup ==
    (outcome.op = "get" /\ config.provider.kind = "json") =>
        outcome.res.value =
            OwnLookup(config.provider.config, SplitOn(outcome.key, "."))

-----------------------------------------------------------------------------
(* Properties of the structured-document provider's construction           *)

IsCreateJson == outcome.op = "createJsonConfig"

\* the file at outcome.loaded is the one the new provider holds
LoadedIsUsed ==
    outcome.res.kind = "return" =>
        /\ outcome.loaded \in DOMAIN files
        /\ files[outcome.loaded] = JsonFile(outcome.res.value.provider.config)
        /\ config = outcome.res.value

StartsWith(text, prefix) ==
    Len(text) >= Len(prefix) /\ SubSeq(text, 1, Len(prefix)) = prefix

FailureMessages ==
    IsCreateJson =>
        /\ ~ExistsSync(files, outcome.loaded) =>
             /\ outcome.res.kind = "throw"
             /\ outcome.res.error.message
                    = NotFoundText \o outcome.loaded \o NotFoundHint
             /\ ~StartsWith(outcome.res.error.message, InvalidJsonText)
        /\ (outcome.loaded \in DOMAIN files
               /\ files[outcome.loaded].kind # "json") =>
             /\ outcome.res.kind = "throw"
             /\ StartsWith(outcome.res.error.message,
                           InvalidJsonText \o outcome.loaded)
             /\ ~StartsWith(outcome.res.error.message, NotFoundText)
        /\ outcome.res.kind = "throw" => "value" \notin DOMAIN outcome.res

\* C10: construction failures.  With no file at the resolved path the
\* construction fails with "Configuration file not found" naming that
\* path; with a file that is not valid JSON it fails with "Invalid JSON";
\* the messages differ, and a failed construction yields no provider and
\* no facade: the caller holds what it held before.
C10_ConstructionFailures ==
    /\ []FailureMessages
    /\ [][(outcome'.op = "createJsonConfig" /\ outcome'.res.kind = "throw")
             => config' = config]_vars

\* a construction fails on a file that is not valid JSON, the caller
\* still holding the facade of an earlier construction
C10_Witness ==
    /\ IsCreateJson
    /\ outcome.loaded \in DOMAIN files
    /\ files[outcome.loaded] = GarbageFile
    /\ outcome.res.kind = "throw"
    /\ StartsWith(outcome.res.error.message, InvalidJsonText)
    /\ config # NoConfig


-----------------------------------------------------------------------------
(* C11: Config.getAll.                                                     *)

IsGetAll == outcome.op = "getAll"

Unsupported == Throw(Error(<<"Provider does not support getAll method">>))

\* what getAll handed back, before the caller has edited it
FreshlyReturned == IsGetAll /\ ~outcome.edited

GetAllCopiesObjectRoot ==
    FreshlyReturned =>
        IF ProviderImplementsGetAll(config.provider)
        THEN /\ outcome.res.kind = "return"
             /\ ~outcome.res.value.alias
             /\ outcome.res.value.value.t = "object"
             /\ config.provider.config.t = "object" =>
                    outcome.res.value.value = config.provider.config
             /\ config.provider.config.t # "object" =>
                    outcome.res.value.value # config.provider.config
        ELSE outcome.res = Unsupported

\* an edit of the top-level keys of the returned object
EditsReturned == IsGetAll /\ outcome'.op = "getAll" /\ outcome' # outcome

-----------------------------------------------------------------------------
(* C12: presence in the environment-file provider.                         *)

\* the keys assigned in the loaded file
AssignedKeys == DOMAIN config.provider.config.o

\* C12: for every key k of the environment-file provider, has(k) is true
\* exactly when k was an assignment in the loaded file, whatever its value,
\* and get(k) is undefined for every k that is not in the file.
C12_PresenceIffAssigned ==
    config.provider.kind = "dotenv" =>
        /\ outcome.op = "has" =>
              outcome.res = Return(Bool(outcome.key \in AssignedKeys))
        /\ (outcome.op = "get" /\ outcome.key \notin AssignedKeys) =>
              outcome.res = Return(Undefined)


-----------------------------------------------------------------------------
(* C13: where the environment-file provider loads from.                    *)

IsCreateDotEnv == outcome.op = "createDotEnvConfig"

\* the directories from dir upward, nearest first, the root last
RECURSIVE Upward(_)
Upward(dir) ==
    IF dir = PathRoot(dir) THEN <<dir>>
    ELSE <<dir>> \o Upward(PathDirname(dir))

\* the directories of dirs that contain the file called name
Containing(dirs, name) ==
    { i \in 1..Len(dirs) : ExistsSync(files, PathJoin(dirs[i], name)) }

\* the file called name in the nearest directory of dirs that contains it,
\* or in the working directory when none does
NearestOrCwd(dirs, name) ==
    IF Containing(dirs, name) = {} THEN PathJoin(cwd, name)
    ELSE LET i == CHOOSE i \in Containing(dirs, name) :
                      \A j \in Containing(dirs, name) : i <= j
         IN  PathJoin(dirs[i], name)

\* C13: an absolute path is loaded as given; for a relative name the
\* directories from the working directory upward are examined in order and
\* the file in the nearest one that contains it is loaded; if none contains
\* it, join(cwd, name) is attempted; a file that cannot be loaded makes
\* the construction throw.
C13_SourceLocation ==
    IsCreateDotEnv =>
        /\ outcome.loaded = IF IsAbsolute(outcome.path) THEN outcome.path
                            ELSE NearestOrCwd(Upward(cwd), outcome.path)
        /\ ~ExistsSync(files, outcome.loaded) => outcome.res.kind = "throw"

\* the directories the search loop looks into: those below the root
BelowRoot(dirs) == SubSeq(dirs, 1, Len(dirs) - 1)

\* the same, when only the directories below the root count as examined
SourceLocationBelowRoot ==
    IsCreateDotEnv =>
        /\ outcome.loaded = IF IsAbsolute(outcome.path) THEN outcome.path
                            ELSE NearestOrCwd(BelowRoot(Upward(cwd)),
                                              outcome.path)
        /\ ~ExistsSync(files, outcome.loaded) => outcome.res.kind = "throw"

-----------------------------------------------------------------------------
(* C17: the upward search and the root directory.                          *)

\* the file called name exists in the root and in no directory below it
\* on the way up from the working directory
OnlyInRoot(name) ==
    /\ cwd # Root
    /\ Containing(Upward(cwd), name) = {Len(Upward(cwd))}

\* C17: when the relative name exists only in the filesystem root and the
\* working directory is a strict descendant of the root, the upward walk
\* finds that file and loads it.
C17_RootIsExamined ==
    (IsCreateDotEnv /\ ~IsAbsolute(outcome.path) /\ OnlyInRoot(outcome.path))
        => /\ outcome.loaded = PathJoin(Root, outcome.path)
           /\ outcome.res.kind = "return"


-----------------------------------------------------------------------------
(* C14: a provider instance is a snapshot.                                 *)

\* a step that constructs a provider
Constructs ==
    outcome'.op \in {"createDotEnvConfig", "createJsonConfig"}

\* the result a caller holds is the result the same call on the same
\* instance gives now
SameAnswer ==
    /\ outcome.op = "get" =>
          outcome.res = ConfigGet(config.provider, outcome.key)
    /\ outcome.op = "has" =>
          outcome.res = ConfigHas(config.provider, outcome.key)
    /\ outcome.op = "getAll" =>
          outcome.res = ConfigGetAll(config.provider)
    /\ outcome.op = "read" =>
          outcome.res = ConfigRead(config.provider, outcome.schema)

\* C14: once an instance is constructed, no get, has, getAll or read and
\* no later change of the files, of the working directory or of
\* CONFIG_PATH changes its backing store or the result of any call on it:
\* the same call on the same instance always returns the same result.
C14_Snapshot ==
    /\ []SameAnswer
    /\ [][(config # NoConfig /\ ~Constructs) => config' = config]_vars

\* an instance that still answers from the document it loaded, after the
\* file has been removed, the working directory left and CONFIG_PATH set
C14_Witness ==
    /\ config # NoConfig
    /\ config.provider.kind = "json"
    /\ SnapJsonPath \notin DOMAIN files
    /\ cwd # AppDir
    /\ ConfigPathVar \in DOMAIN processEnv
    /\ outcome.op = "get"
    /\ outcome.res.value # Undefined


-----------------------------------------------------------------------------
(* C15: provider instances are independent.                                *)

\* C15: constructing an environment-file provider does not change which
\* document a later structured-document provider resolves: for every
\* constructor path, the path resolved after the construction is the path
\* resolved before it.
C15_Independence ==
    [][outcome'.op = "createDotEnvConfig" =>
          \A jsonPath \in JsonPathPool :
              ResolveConfigPath(cwd', processEnv', jsonPath)
                = ResolveConfigPath(cwd, processEnv, jsonPath)]_vars


-----------------------------------------------------------------------------
(* C16: a stored JSON null.                                                *)

IsJson == config.provider.kind = "json"

\* C16 (as stated): in the structured-document provider a key whose stored
\* value is null is indistinguishable from a missing key: has returns
\* false, and read treats the key as absent, storing its default or
\* raising when it has none.
C16_NullIsAbsent ==
    IsJson =>
        /\ (outcome.op = "has" /\ Lookup(outcome.key) = Null)
              => outcome.res = Return(Bool(FALSE))
        /\ IsRead =>
              \A i \in 1..Len(outcome.schema) :
                  LET en == outcome.schema[i]
                  IN  (Lookup(en.key) = Null /\ outcome.res.kind = "return")
                      => /\ en.def # Undefined
                         /\ outcome.res.value.o[en.key] = en.def

\* C16 (amended): in the structured-document provider a key whose stored
\* value is null is distinguishable from a missing key: has returns true,
\* and read treats the key as present: a successful read holds null for
\* it, whatever its default, and a failing read never names it.
C16_NullIsPresent ==
    IsJson =>
        /\ (outcome.op = "has" /\ Lookup(outcome.key) = Null)
              => outcome.res = Return(Bool(TRUE))
        /\ IsRead =>
              \A i \in 1..Len(outcome.schema) :
                  LET en == outcome.schema[i]
                  IN  Lookup(en.key) = Null
                      => IF outcome.res.kind = "return"
                         THEN outcome.res.value.o[en.key] = Null
                         ELSE outcome.res.error.propertyName # en.key

\* a successful read of a key stored as null that declares a default, next
\* to a key taken from its default
C16_Witness ==
    /\ IsJson
    /\ IsRead
    /\ outcome.res.kind = "return"
    /\ \E i, j \in 1..Len(outcome.schema) :
          /\ Lookup(outcome.schema[i].key) = Null
          /\ outcome.schema[i].def # Undefined
          /\ outcome.res.value.o[outcome.schema[i].key] = Null
          /\ Lookup(outcome.schema[j].key) = Undefined

====
